---- MODULE Spec2Model ----
(***************************************************************************)
(* Storage browser (script/mount_tool.py): device inventory, safety gate,  *)
(* privilege mediator, busy-resource resolver and the device actions.      *)
(* Strings the code inspects character by character (device names, paths,  *)
(* labels, UUIDs) are sequences of one-character strings; Python's None    *)
(* and "" (both falsy, and only ever tested for truth) are the empty       *)
(* sequence.                                                               *)
(***************************************************************************)
EXTENDS Integers, Sequences, FiniteSets, TLC

\* ------------------------------------------------------------------ bounds
\* most simultaneous mounts of one block device in the live system
MaxMounts == 2
\* most device actions (keys that call an action) in one session
MaxActions == 3
\* most holder processes the holder probe lists
MaxPids == 2
\* most characters after the stem of a device name given to parent_disk
MaxTail == 5
\* most nodes in a listing given to fetch_devices
MaxNodes == 3

\* ------------------------------------------------------------- text helpers
None == << >>

StartsWith(s, pre) ==
    /\ Len(pre) <= Len(s)
    /\ SubSeq(s, 1, Len(pre)) = pre

\* Python's  sub in s
IsSubstr(sub, s) ==
    \E i \in 0..(Len(s) - Len(sub)) : SubSeq(s, i + 1, i + Len(sub)) = sub

Truthy(s) == s # None

\* Python's  a or b  on strings
OrElse(a, b) == IF Truthy(a) THEN a ELSE b

\* ------------------------------------------------- names of the test machine
N_sda    == <<"s","d","a">>
N_sda1   == <<"s","d","a","1">>
N_sda2   == <<"s","d","a","2">>
N_sda3   == <<"s","d","a","3">>
N_vault  == <<"v">>
U_sda1   == <<"u","1">>
U_sda2   == <<"u","2">>
U_sda3   == <<"u","3">>
U_crypt  == <<"u","c">>
L_sda1   == <<"a"," ","b">>
L_sda2   == <<"c">>
SwapMark == <<"[","S","W","A","P","]">>

DevPrefix    == <<"/","d","e","v","/">>
MapperPrefix == DevPrefix \o <<"m","a","p","p","e","r","/">>

\* ------------------------------------------------------------ Partition
Partition(name, size, fstype, mountpoints, label, uuid, type, is_swap, is_luks, luks_mapper, luks_unlocked) ==
    [name |-> name, size |-> size, fstype |-> fstype,
     mountpoints |-> mountpoints, label |-> label, uuid |-> uuid,
     type |-> type, is_swap |-> is_swap, is_luks |-> is_luks,
     luks_mapper |-> luks_mapper, luks_unlocked |-> luks_unlocked]

\* the placeholder held while no Partition is selected (main's list view)
NoPartition ==
    Partition(None, "", "", << >>, None, None, "", FALSE, FALSE, None, FALSE)

\* Partition.dev
Dev(p) == DevPrefix \o p.name

\* Partition.mount :  first truthy mountpoint, else "-"
Dash == <<"-">>
RECURSIVE FirstTruthy(_)
FirstTruthy(mps) ==
    IF mps = << >> THEN Dash
    ELSE IF Truthy(Head(mps)) THEN Head(mps)
    ELSE FirstTruthy(Tail(mps))

Mount(p) == FirstTruthy(p.mountpoints)

\* a test that takes every snapshot for unmounted
IsMounted_never(p) == FALSE

\* the test  p.mount and p.mount != "-"
IsMounted(p) == Truthy(Mount(p)) /\ Mount(p) # Dash

\* the device path the mount-family commands are given
MapperDevPath(p) ==
    IF p.is_luks /\ p.luks_unlocked /\ Truthy(p.luks_mapper)
    THEN MapperPrefix \o p.luks_mapper
    ELSE Dev(p)

\* --------------------------------------------------- the live machine
\* One disk sda: sda1 (ext4), sda2 (LUKS container, whose mapper appears as
\* its child once opened), sda3 (swap).  live.mapper is the name the
\* container is opened under (None while closed).
MountsOf(mnt) == IF mnt = << >> THEN <<None>> ELSE mnt

\* a JSON object of the listing; json tells it from a value that is no object
Node(name, size, type, fstype, label, uuid, mountpoints, children) ==
    [json |-> "object",
     name |-> name, size |-> size, type |-> type, fstype |-> fstype,
     label |-> label, uuid |-> uuid, mountpoints |-> mountpoints,
     children |-> children]

\* a list element that is not an object (a number, a string, null)
JsonScalar ==
    [json |-> "scalar",
     name |-> None, size |-> "", type |-> "", fstype |-> "",
     label |-> None, uuid |-> None, mountpoints |-> << >>,
     children |-> << >>]

\* the value under "blockdevices": a list, or null
JsonArray(items) == [json |-> "array", items |-> items]
JsonNull == [json |-> "null", items |-> << >>]

\* what  lsblk -J -o NAME,SIZE,TYPE,FSTYPE,LABEL,UUID,MOUNTPOINTS  prints
LsblkTree(lv) ==
    JsonArray(
    IF ~lv.present THEN << >>
    ELSE
    << Node(N_sda, "8G", "disk", "", None, None, <<None>>,
        << Node(N_sda1, "4G", "part", "ext4", L_sda1, U_sda1,
                MountsOf(lv.mnt1), << >>),
           Node(N_sda2, "3G", "part", "crypto_LUKS", L_sda2, U_sda2, <<None>>,
                IF lv.mapper = None THEN << >>
                ELSE << Node(lv.mapper, "3G", "crypt", "ext4", None, U_crypt,
                             MountsOf(lv.mntc), << >>) >>),
           Node(N_sda3, "1G", "part", "swap", None, U_sda3,
                IF lv.swapon THEN <<SwapMark>> ELSE <<None>>, << >>) >>) >>)

\* ------------------------------------------------------ fetch_devices
\* a test that lets every typed node through, disks included
emitted_typed(typ) == typ # ""

\* the test that guards parts.append
emitted(typ) == typ \in {"part", "crypt", "lvm"} \/ (typ # "" /\ typ # "disk")

\* a walk that records no mapper for any node
mapper_unset(typ, name) == None

\* mapper as walk leaves it: the node's own name for a crypt node
mapper_of(typ, name) == IF typ = "crypt" THEN name ELSE None

\* walk(node): the Partition of the node (disks skipped), then its children
RECURSIVE walk(_), walkAll(_)
walk(node) ==
    LET typ      == node.type
        fs       == node.fstype
        is_swap  == (fs = "swap")
        is_luks  == (typ = "crypt") \/ (fs = "crypto_LUKS")
        mapper   == mapper_of(typ, node.name)
        unlocked == (typ = "crypt")
        emit     == emitted(typ)
        own      == IF emit
                    THEN << Partition(node.name, node.size, fs,
                                      node.mountpoints, node.label, node.uuid,
                                      typ, is_swap, is_luks, mapper, unlocked) >>
                    ELSE << >>
    IN  own \o walkAll(node.children)

walkAll(nodes) ==
    IF nodes = << >> THEN << >>
    ELSE walk(Head(nodes)) \o walkAll(Tail(nodes))

\* node.get(...) on a value that is no object raises, at any depth
RECURSIVE walk_raises(_), walkAll_raises(_)
walk_raises(node) ==
    node.json # "object" \/ walkAll_raises(node.children)

walkAll_raises(nodes) ==
    nodes # << >> /\ (walk_raises(Head(nodes)) \/ walkAll_raises(Tail(nodes)))

\* a link test that takes any crypt node, whatever its name
LinkMatches_any_crypt(p, cand) == cand.type = "crypt" /\ cand.luks_unlocked

\* the link test of one locked partition against one candidate
LinkMatches(p, cand) ==
    /\ cand.type = "crypt"
    /\ cand.luks_unlocked
    /\ \/ StartsWith(cand.name, p.name)
       \/ (Truthy(p.uuid) /\ IsSubstr(p.uuid, cand.name))

\* index of the last candidate that matches, 0 if none
RECURSIVE LastMatch(_, _, _)
LastMatch(p, parts, j) ==
    IF j > Len(parts) THEN 0
    ELSE LET later == LastMatch(p, parts, j + 1)
         IN  IF later # 0 THEN later
             ELSE IF LinkMatches(p, parts[j]) THEN j ELSE 0

\* index of the first candidate that matches, 0 if none (the inner loop)
RECURSIVE FirstMatch(_, _, _)
FirstMatch(p, parts, j) ==
    IF j > Len(parts) THEN 0
    ELSE IF LinkMatches(p, parts[j]) THEN j
    ELSE FirstMatch(p, parts, j + 1)

\* a link that records the candidate's UUID
linked_mapper_uuid(cand) == cand.uuid

\* p.luks_mapper = cand.name
linked_mapper(cand) == cand.name

\* the outer loop, mutating the list in place from index i on
RECURSIVE LinkPass(_, _)
LinkPass(parts, i) ==
    IF i > Len(parts) THEN parts
    ELSE LET p == parts[i]
             j == IF p.is_luks /\ ~p.luks_unlocked
                  THEN FirstMatch(p, parts, 1) ELSE 0
         IN  IF j = 0 THEN LinkPass(parts, i + 1)
             ELSE LinkPass([parts EXCEPT ![i].luks_unlocked = TRUE,
                                         ![i].luks_mapper = linked_mapper(parts[j])],
                           i + 1)

\* what fetch_devices hands its caller: a list, or an exception
Returned(parts) == [raised |-> FALSE, parts |-> parts]
Raised == [raised |-> TRUE, parts |-> << >>]

\* outcome: "ok", the query and json.loads(out).get worked and raw is the
\* value under "blockdevices" ([] when the key is absent); "fail", the query
\* raised; "unparsable", json.loads or .get raised.  Both are caught.  The
\* loops over raw and over the children are outside any try.
fetch_devices(outcome, raw) ==
    IF outcome # "ok" THEN Returned(<< >>)
    ELSE IF raw.json # "array" THEN Raised
    ELSE IF walkAll_raises(raw.items) THEN Raised
    ELSE Returned(LinkPass(walkAll(raw.items), 1))

\* ------------------------------------------------------------- state
VARIABLES
    SAFE_MODE,   \* the module global the gate reads
    priv,        \* "root": euid 0; "sudo": sudo works; "nosudo": no sudo on PATH
    view,        \* "start", "list", "details", "exited", "crashed"
    exit_code,   \* process exit status once view is "exited" or "crashed"
    devs,        \* main's snapshot
    selected,    \* main's cursor (0-based)
    p,           \* show_details' Partition
    live,        \* the machine: mounts, mapper, swap, disk presence
    act,         \* the action the last key called ("" after navigation)
    trace,       \* the prompts and external calls of that action, in order
    result,      \* what that action reported
    nacts,       \* actions called so far in this session
    argv,        \* the command line: --safe and --mount-base
    environ,     \* os.environ["MOUNT_BASE"] (None: not set)
    DEFAULT_MOUNT_BASE,  \* the module global computed at import
    arg,         \* the argument of a function called on its own
    ret          \* what that call handed back

vars == <<SAFE_MODE, priv, view, exit_code, devs, selected, p, live,
          act, trace, result, nacts, argv, environ, DEFAULT_MOUNT_BASE,
          arg, ret>>

\* the variables of the session, and those of a function called on its own
session == <<SAFE_MODE, priv, view, exit_code, devs, selected, p, live,
             act, trace, result, nacts, argv, environ, DEFAULT_MOUNT_BASE>>
unit == <<arg, ret>>
config == <<argv, environ, DEFAULT_MOUNT_BASE>>
NotCalled == [state |-> "none"]

\* ----------------------------------------------------- the environment
MOUNT_BASE  == <<"/","m","n","t">>
CustomPath  == <<"/","x">>
VMKEYS_DIR  == <<"/","k","/">>

Slot(path, lv) ==
    IF ~lv.present THEN "none"
    ELSE IF path = DevPrefix \o N_sda1 THEN "sda1"
    ELSE IF lv.mapper # None /\ path = MapperPrefix \o lv.mapper THEN "crypt"
    ELSE "none"

SlotMounts(slot, lv) ==
    IF slot = "sda1" THEN lv.mnt1
    ELSE IF slot = "crypt" THEN lv.mntc
    ELSE << >>

InSeq(x, s) == \E i \in 1..Len(s) : s[i] = x

AllButLast(s) == SubSeq(s, 1, Len(s) - 1)

Idle(lv) == lv.mnt1 = << >> /\ lv.mntc = << >> /\ ~lv.swapon /\ lv.mapper = None

\* can the command succeed on the machine as it is now?
Feasible(tool, args, lv) ==
    CASE tool = "mount" ->
            /\ Slot(args[1], lv) # "none"
            /\ Len(SlotMounts(Slot(args[1], lv), lv)) < MaxMounts
            /\ ~InSeq(args[2], SlotMounts(Slot(args[1], lv), lv))
      [] tool = "umount" ->
            SlotMounts(Slot(args[1], lv), lv) # << >>
      [] tool = "fsck" ->
            Slot(args[1], lv) # "none"
      [] tool = "udisksctl" ->
            lv.present /\ args[1] = DevPrefix \o N_sda /\ Idle(lv)
      [] tool = "swapon" ->
            lv.present /\ args[1] = DevPrefix \o N_sda3 /\ ~lv.swapon
      [] tool = "swapoff" ->
            lv.present /\ args[1] = DevPrefix \o N_sda3 /\ lv.swapon
      [] tool = "cryptsetup_open" ->
            lv.present /\ args[1] = DevPrefix \o N_sda2 /\ lv.mapper = None
      [] tool = "cryptsetup_close" ->
            lv.present /\ lv.mapper # None /\ args[1] = lv.mapper
                       /\ lv.mntc = << >>
      [] OTHER -> TRUE

\* the machine after the command has succeeded
Effect(tool, args, lv) ==
    CASE tool = "mount" ->
            IF Slot(args[1], lv) = "sda1"
            THEN [lv EXCEPT !.mnt1 = Append(@, args[2])]
            ELSE [lv EXCEPT !.mntc = Append(@, args[2])]
      [] tool = "umount" ->
            IF Slot(args[1], lv) = "sda1"
            THEN [lv EXCEPT !.mnt1 = AllButLast(@)]
            ELSE [lv EXCEPT !.mntc = AllButLast(@)]
      [] tool = "udisksctl" -> [lv EXCEPT !.present = FALSE]
      [] tool = "swapon"  -> [lv EXCEPT !.swapon = TRUE]
      [] tool = "swapoff" -> [lv EXCEPT !.swapon = FALSE]
      [] tool = "cryptsetup_open"  -> [lv EXCEPT !.mapper = args[2]]
      [] tool = "cryptsetup_close" -> [lv EXCEPT !.mapper = None]
      [] OTHER -> lv

\* a mediator that puts sudo in front even when the caller is root
elevates_always(via) == via = "run_priv"

\* run_priv puts sudo in front of the vector unless os.geteuid() is 0
elevates(via) == via = "run_priv" /\ priv # "root"

\* one entry of the trace: the vector as the caller gave it (tool, flag,
\* args, pids), and whether sudo was put in front of it
Call(via, tool, flag, args, out, pids, lv) ==
    [via |-> via, tool |-> tool, flag |-> flag, args |-> args, out |-> out,
     pids |-> pids, sudo |-> elevates(via), at |-> lv]

\* ------------------------------------------------------------ utilities
\* Each operation below yields the set of ways it can go, one record per
\* combination of what the user answers and what the commands return; tr is
\* the trace so far with the operation's own prompts and calls appended.

\* run_priv: the vector runs directly as root, else behind sudo; without a
\* sudo binary the invocation itself fails ("noexec"), otherwise the command
\* exits zero ("ok", when the machine allows it) or non-zero.
PrivOutcomes(tool, args, lv) ==
    IF priv = "nosudo" THEN {"noexec"}
    ELSE {"nonzero"} \cup (IF Feasible(tool, args, lv) THEN {"ok"} ELSE {})

run_priv(tr, lv, tool, flag, args) ==
    { [tr  |-> Append(tr, Call("run_priv", tool, flag, args, out, << >>, lv)),
       lv  |-> IF out = "ok" THEN Effect(tool, args, lv) ELSE lv,
       out |-> out] : out \in PrivOutcomes(tool, args, lv) }

\* does the call raise?  (check=True raises on a non-zero exit as well)
Raises(out, check) == out = "noexec" \/ (check /\ out = "nonzero")

\* what the user may answer to a yes/no prompt; "^C" is an interrupt or EOF
RawAnswers == {"^C", "", " Yes", "n"}

\* ans.strip().lower() on the answers above
StripLower(ans) == IF ans = " Yes" THEN "yes" ELSE ans

\* a confirmation that takes a bare Enter for yes whatever the default
ConfirmValue_enter_is_yes(ans, default_no) ==
    ans # "^C" /\ StripLower(ans) \in {"", "y", "yes"}

ConfirmValue(ans, default_no) ==
    IF ans = "^C" THEN FALSE
    ELSE IF StripLower(ans) = "" THEN ~default_no
    ELSE StripLower(ans) \in {"y", "yes"}

confirm(tr, lv, what, default_no) ==
    { [tr  |-> Append(tr, Call("prompt", "confirm", what, << >>, ans, << >>, lv)),
       yes |-> ConfirmValue(ans, default_no)] : ans \in RawAnswers }

\* what an action hands back: its trace, the machine, and its report
\* ("raised" when an exception leaves the action)
Out(tr, lv, res) == [tr |-> tr, lv |-> lv, res |-> res]

\* --------------------------------------------------------- parent_disk
Digits == {"0", "1", "2", "3", "4", "5", "6", "7", "8", "9"}

\* length of the run of digits that starts at position i
RECURSIVE DigitRun(_, _)
DigitRun(s, i) ==
    IF i <= Len(s) /\ s[i] \in Digits THEN 1 + DigitRun(s, i + 1) ELSE 0

\* length of the run of digits that ends the string
RECURSIVE TrailingDigits(_)
TrailingDigits(s) ==
    IF s # << >> /\ s[Len(s)] \in Digits
    THEN 1 + TrailingDigits(AllButLast(s)) ELSE 0

\* re.sub(r"\d+$", "", s)
StripDigits(s) == SubSeq(s, 1, Len(s) - TrailingDigits(s))

\* re.sub(r"p\d+$", "", s)
StripPDigits(s) ==
    LET t == StripDigits(s)
    IN  IF TrailingDigits(s) > 0 /\ t # << >> /\ t[Len(t)] = "p"
        THEN AllButLast(t) ELSE s

\* s[i..] matches  \d+ <sep> rest-pattern : position after the separator, 0 if not
AfterDigitsThen(s, i, sep) ==
    LET n == DigitRun(s, i)
    IN  IF n > 0 /\ i + n <= Len(s) /\ s[i + n] = sep THEN i + n + 1 ELSE 0

\* re.match(r"^(nvme\d+n\d+p)\d+$", s)
MatchesNvme(s) ==
    /\ StartsWith(s, <<"n","v","m","e">>)
    /\ LET a == AfterDigitsThen(s, 5, "n")
       IN  /\ a > 0
           /\ LET b == AfterDigitsThen(s, a, "p")
              IN  b > 0 /\ b <= Len(s) /\ DigitRun(s, b) = Len(s) - b + 1

\* re.match(r"^mmcblk\d+p\d+$", s)
MatchesMmc(s) ==
    /\ StartsWith(s, <<"m","m","c","b","l","k">>)
    /\ LET b == AfterDigitsThen(s, 7, "p")
       IN  b > 0 /\ b <= Len(s) /\ DigitRun(s, b) = Len(s) - b + 1

\* a derivation that knows the trailing-digit rule only
parent_disk_plain(name) == StripDigits(name)

parent_disk(name) ==
    IF MatchesNvme(name) THEN StripPDigits(name)
    ELSE IF MatchesMmc(name) THEN StripPDigits(name)
    ELSE StripDigits(name)

\* ------------------------------------------------- choose_mount_point
\* the class [A-Za-z0-9._-]
SafeChars ==
    {
      "a", "b", "c", "d", "e", "f", "g", "h", "i", "j", "k", "l", "m",
      "n", "o", "p", "q", "r", "s", "t", "u", "v", "w", "x", "y", "z",
      "A", "B", "C", "D", "E", "F", "G", "H", "I", "J", "K", "L", "M",
      "N", "O", "P", "Q", "R", "S", "T", "U", "V", "W", "X", "Y", "Z",
      "0", "1", "2", "3", "4", "5", "6", "7", "8", "9", ".", "_", "-" }

\* re.sub(r"[^A-Za-z0-9._-]", "_", name)
Sanitize(name) ==
    [i \in 1..Len(name) |-> IF name[i] \in SafeChars THEN name[i] ELSE "_"]

DefaultMountPoint(q) ==
    DEFAULT_MOUNT_BASE \o <<"/">> \o Sanitize(OrElse(q.label, q.name))

\* what the user may type at the mount-point prompt (None: interrupt)
MountAnswers == {"^C", "empty", "blank", "path"}

AnswerText(a) ==
    CASE a = "blank" -> <<" ">>
      [] a = "path"  -> CustomPath
      [] OTHER       -> None

\* ans.strip() == ""  on the answers above
StripsToEmpty(text) == \A i \in 1..Len(text) : text[i] = " "

\* Path(ans).mkdir(parents=True, exist_ok=True) by the process itself
choose_mount_point(q, tr, lv) ==
    { LET text == AnswerText(a)
          ans  == IF a = "^C" \/ StripsToEmpty(text)
                  THEN DefaultMountPoint(q) ELSE text
      IN  [tr     |-> Append(Append(tr, Call("prompt", "input", "mount_point",
                                             <<text>>, a, << >>, lv)),
                             Call("direct", "mkdir", "-p", <<ans>>, made,
                                  << >>, lv)),
           path   |-> ans,
           raised |-> (made = "error")]
      : a \in MountAnswers, made \in {"ok", "error"} }

\* ----------------------------------------------- kill_processes_using
PidList(n) == [i \in 1..n |-> i]

\* the signalling loop and the settle delay
signal_holders(pids, tr, lv) ==
    { [tr    |-> (tr \o [i \in 1..Len(pids) |->
                          Call("run_priv", "kill", "-TERM", << >>, outs[i],
                               <<pids[i]>>, lv)])
                 \o << Call("sleep", "sleep", "0.5", << >>, "ok", << >>, lv) >>,
       freed |-> \A i \in 1..Len(pids) : ~Raises(outs[i], FALSE)]
      : outs \in [1..Len(pids) -> PrivOutcomes("kill", << >>, lv)] }

\* from the holder list on
resolve_holders(pids, tr, lv) ==
    IF pids = << >> THEN { [tr |-> tr, freed |-> TRUE] }
    ELSE UNION { IF ~c.yes THEN { [tr |-> c.tr, freed |-> FALSE] }
                 ELSE signal_holders(pids, c.tr, lv)
                 : c \in confirm(tr, lv, "kill", TRUE) }

\* the holder probe:  lsof -t dev_path  lists up to MaxPids holders, or fails
probe_holders(dev_path, tr, lv) ==
    { [tr   |-> Append(tr, Call("run_cmd", "lsof", "-t", <<dev_path>>,
                                IF n = 0 THEN "nonzero" ELSE "ok",
                                PidList(n), lv)),
       pids |-> PidList(n)] : n \in 0..MaxPids }

kill_processes_using(q, tr, lv) ==
    LET dev_path == MapperDevPath(q)
        which(avail) == Append(tr, Call("which", "lsof", "", << >>,
                                        IF avail THEN "found" ELSE "missing",
                                        << >>, lv))
    IN  { [tr |-> which(FALSE), freed |-> TRUE] }
        \cup UNION { resolve_holders(h.pids, h.tr, lv)
                     : h \in probe_holders(dev_path, which(TRUE), lv) }

\* ---------------------------------------------------------- the gate
\* a wrapper that lets the call through whatever the global says
block_if_safe_never(safe) == FALSE

\* block_if_safe's test of the global
block_if_safe(safe) == safe

Blocked(tr, lv) == { Out(tr, lv, "blocked") }

\* ----------------------------------------------------------- actions
mount_cmd(dev_path, mp, tr, lv, okres, failres) ==
    { Out(r.tr, r.lv, IF Raises(r.out, TRUE) THEN failres ELSE okres)
      : r \in run_priv(tr, lv, "mount", "", <<dev_path, mp>>) }

do_mount_body(q, tr, lv) ==
    IF IsMounted(q) THEN { Out(tr, lv, "already_mounted") }
    ELSE UNION { IF m.raised THEN { Out(m.tr, lv, "raised") }
                 ELSE mount_cmd(MapperDevPath(q), m.path, m.tr, lv,
                                "mounted", "mount_failed")
                 : m \in choose_mount_point(q, tr, lv) }

do_mount(q, tr, lv) ==
    IF block_if_safe(SAFE_MODE) THEN Blocked(tr, lv)
    ELSE do_mount_body(q, tr, lv)

\* the last resort:  umount -l  with check=False
lazy_unmount(q, tr, lv) ==
    { Out(r.tr, r.lv, IF Raises(r.out, FALSE) THEN "still_cant_unmount"
                      ELSE "lazy_attempted")
      : r \in run_priv(tr, lv, "umount", "-l", <<MapperDevPath(q)>>) }

\* a retry that tries the plain umount once more before giving up
retry_unmount_twice(q, tr, lv) ==
    UNION { IF Raises(r.out, TRUE)
            THEN UNION { IF Raises(r2.out, TRUE) THEN lazy_unmount(q, r2.tr, r2.lv)
                         ELSE { Out(r2.tr, r2.lv, "unmounted_after_kill") }
                         : r2 \in run_priv(r.tr, r.lv, "umount", "",
                                           <<MapperDevPath(q)>>) }
            ELSE { Out(r.tr, r.lv, "unmounted_after_kill") }
            : r \in run_priv(tr, lv, "umount", "", <<MapperDevPath(q)>>) }

\* the second plain umount
retry_unmount(q, tr, lv) ==
    UNION { IF Raises(r.out, TRUE) THEN lazy_unmount(q, r.tr, r.lv)
            ELSE { Out(r.tr, r.lv, "unmounted_after_kill") }
            : r \in run_priv(tr, lv, "umount", "", <<MapperDevPath(q)>>) }

\* a fallback that goes to the lazy umount without a second plain umount
retry_never(freed) == FALSE

\* the test  if kill_processes_using(p):  that guards the second plain umount
retry_after_resolver(freed) == freed

\* the fallback of do_unmount once the first umount has raised
unmount_fallback(q, tr, lv) ==
    UNION { IF retry_after_resolver(k.freed) THEN retry_unmount(q, k.tr, lv)
            ELSE lazy_unmount(q, k.tr, lv)
            : k \in kill_processes_using(q, tr, lv) }

first_unmount(q, tr, lv) ==
    UNION { IF Raises(r.out, TRUE) THEN unmount_fallback(q, r.tr, r.lv)
            ELSE { Out(r.tr, r.lv, "unmounted") }
            : r \in run_priv(tr, lv, "umount", "", <<MapperDevPath(q)>>) }

do_unmount_body(q, tr, lv) ==
    IF ~IsMounted(q) THEN { Out(tr, lv, "not_mounted") }
    ELSE UNION { IF ~c.yes THEN { Out(c.tr, lv, "declined") }
                 ELSE first_unmount(q, c.tr, lv)
                 : c \in confirm(tr, lv, "unmount", TRUE) }

do_unmount(q, tr, lv) ==
    IF block_if_safe(SAFE_MODE) THEN Blocked(tr, lv)
    ELSE do_unmount_body(q, tr, lv)

\* the try block of do_remount: umount with check=False, then mount
remount_at(q, mount_at, tr, lv) ==
    UNION { IF Raises(r.out, FALSE) THEN { Out(r.tr, r.lv, "remount_failed") }
            ELSE mount_cmd(MapperDevPath(q), mount_at, r.tr, r.lv,
                           "remounted", "remount_failed")
            : r \in run_priv(tr, lv, "umount", "", <<MapperDevPath(q)>>) }

do_remount_body(q, tr, lv) ==
    IF IsMounted(q) THEN remount_at(q, Mount(q), tr, lv)
    ELSE UNION { IF m.raised THEN { Out(m.tr, lv, "raised") }
                 ELSE remount_at(q, m.path, m.tr, lv)
                 : m \in choose_mount_point(q, tr, lv) }

do_remount(q, tr, lv) ==
    IF block_if_safe(SAFE_MODE) THEN Blocked(tr, lv)
    ELSE do_remount_body(q, tr, lv)

\* a check that mounts the device again where the snapshot had it
fsck_then_remount(q, tr, lv) ==
    UNION { IF Raises(r.out, TRUE) THEN { Out(r.tr, r.lv, "fsck_failed") }
            ELSE IF ~IsMounted(q) THEN { Out(r.tr, r.lv, "fsck_completed") }
            ELSE mount_cmd(MapperDevPath(q), Mount(q), r.tr, r.lv,
                           "fsck_completed", "fsck_failed")
            : r \in run_priv(tr, lv, "fsck", "-y", <<MapperDevPath(q)>>) }

\* the second try block of do_fsck: the check, and nothing after it
fsck_check(q, tr, lv) ==
    { Out(r.tr, r.lv, IF Raises(r.out, TRUE) THEN "fsck_failed"
                      ELSE "fsck_completed")
      : r \in run_priv(tr, lv, "fsck", "-y", <<MapperDevPath(q)>>) }

\* the except branch of do_fsck's umount: resolver, then umount with
\* check=False outside any try
fsck_busy(q, tr, lv) ==
    UNION { IF ~k.freed THEN { Out(k.tr, lv, "fsck_aborted") }
            ELSE UNION { IF Raises(r.out, FALSE)
                         THEN { Out(r.tr, r.lv, "raised") }
                         ELSE fsck_check(q, r.tr, r.lv)
                         : r \in run_priv(k.tr, lv, "umount", "",
                                          <<MapperDevPath(q)>>) }
            : k \in kill_processes_using(q, tr, lv) }

fsck_unmount(q, tr, lv) ==
    UNION { IF Raises(r.out, TRUE) THEN fsck_busy(q, r.tr, r.lv)
            ELSE fsck_check(q, r.tr, r.lv)
            : r \in run_priv(tr, lv, "umount", "", <<MapperDevPath(q)>>) }

do_fsck_body(q, tr, lv) ==
    IF ~IsMounted(q) THEN fsck_check(q, tr, lv)
    ELSE UNION { IF ~c.yes THEN { Out(c.tr, lv, "declined") }
                 ELSE fsck_unmount(q, c.tr, lv)
                 : c \in confirm(tr, lv, "unmount_for_fsck", TRUE) }

do_fsck(q, tr, lv) ==
    IF block_if_safe(SAFE_MODE) THEN Blocked(tr, lv)
    ELSE do_fsck_body(q, tr, lv)

\* a power-off aimed at the partition itself
power_off_partition(q, tr, lv) ==
    { Out(r.tr, r.lv, IF Raises(r.out, TRUE) THEN "eject_failed" ELSE "ejected")
      : r \in run_priv(tr, lv, "udisksctl", "power-off", <<Dev(q)>>) }

\* the last try block of do_eject
power_off(q, tr, lv) ==
    { Out(r.tr, r.lv, IF Raises(r.out, TRUE) THEN "eject_failed" ELSE "ejected")
      : r \in run_priv(tr, lv, "udisksctl", "power-off",
                       <<DevPrefix \o parent_disk(q.name)>>) }

\* the mounted branch of do_eject, after the first confirmation
eject_mounted(q, tr, lv) ==
    UNION { IF ~c.yes THEN { Out(c.tr, lv, "declined") }
            ELSE UNION { power_off(q, u.tr, u.lv) : u \in do_unmount(q, c.tr, lv) }
            : c \in confirm(tr, lv, "unmount_first", FALSE) }

do_eject_body(q, tr, lv) ==
    UNION { IF ~c.yes THEN { Out(c.tr, lv, "declined") }
            ELSE IF IsMounted(q) THEN eject_mounted(q, c.tr, lv)
            ELSE power_off(q, c.tr, lv)
            : c \in confirm(tr, lv, "eject", TRUE) }

do_eject(q, tr, lv) ==
    IF block_if_safe(SAFE_MODE) THEN Blocked(tr, lv)
    ELSE do_eject_body(q, tr, lv)

\* what  swapon --show=NAME  prints
\* (a header line, then one line per active area; nothing when none is)
SwapListing(lv) ==
    LET own   == IF lv.present /\ lv.swapon THEN <<DevPrefix \o N_sda3>>
                 ELSE << >>
        areas == own \o lv.elsewhere
    IN  IF areas = << >> THEN << >> ELSE << <<"N","A","M","E">> >> \o areas

\* the live query; a failed query reads as no output.  args holds the lines.
query_swaps(tr, lv) ==
    { [tr    |-> Append(tr, Call("run_cmd", "swapon", "--show=NAME",
                                 IF qout = "ok" THEN SwapListing(lv) ELSE << >>,
                                 qout, << >>, lv)),
       lines |-> IF qout = "ok" THEN SwapListing(lv) ELSE << >>]
      : qout \in {"ok", "nonzero"} }

\* any(dev_path in line for line in out.splitlines())
SwapActive(dev_path, lines) ==
    \E i \in 1..Len(lines) : IsSubstr(dev_path, lines[i])

\* a test that trusts the snapshot's mountpoints instead of the listing
swap_is_active_cached(q, lines) == InSeq(SwapMark, q.mountpoints)

\* active, as do_swap_toggle computes it
swap_is_active(q, lines) == SwapActive(Dev(q), lines)

swap_cmd(q, tool, tr, lv) ==
    { Out(r.tr, r.lv, IF ~Raises(r.out, TRUE) THEN tool
                      ELSE IF tool = "swapon" THEN "swapon_failed"
                      ELSE "swapoff_failed")
      : r \in run_priv(tr, lv, tool, "", <<Dev(q)>>) }

swap_switch(q, tool, default_no, tr, lv) ==
    UNION { IF ~c.yes THEN { Out(c.tr, lv, "declined") }
            ELSE swap_cmd(q, tool, c.tr, lv)
            : c \in confirm(tr, lv, tool, default_no) }

do_swap_toggle_body(q, tr, lv) ==
    IF ~q.is_swap THEN { Out(tr, lv, "not_swap") }
    ELSE UNION { IF swap_is_active(q, s.lines)
                 THEN swap_switch(q, "swapoff", TRUE, s.tr, lv)
                 ELSE swap_switch(q, "swapon", FALSE, s.tr, lv)
                 : s \in query_swaps(tr, lv) }

do_swap_toggle(q, tr, lv) ==
    IF block_if_safe(SAFE_MODE) THEN Blocked(tr, lv)
    ELSE do_swap_toggle_body(q, tr, lv)

\* the mapper-name prompt:  safe_input(...) or p.name
MapperAnswers == {"^C", "empty", "name"}

ask_mapper(q, tr, lv) ==
    { [tr     |-> Append(tr, Call("prompt", "input", "mapper_name",
                                  <<IF a = "name" THEN N_vault ELSE None>>, a,
                                  << >>, lv)),
       mapper |-> OrElse(IF a = "name" THEN N_vault ELSE None, q.name)]
      : a \in MapperAnswers }

luks_open(q, flag, args, tr, lv, okres) ==
    { Out(r.tr, r.lv, IF Raises(r.out, TRUE) THEN "open_failed" ELSE okres)
      : r \in run_priv(tr, lv, "cryptsetup_open", flag, args) }

luks_unlock_passphrase_body(q, tr, lv) ==
    IF ~q.is_luks \/ q.luks_unlocked THEN { Out(tr, lv, "not_locked_luks") }
    ELSE UNION { luks_open(q, "--type luks", <<Dev(q), m.mapper>>, m.tr, lv,
                           "unlocked")
                 : m \in ask_mapper(q, tr, lv) }

luks_unlock_passphrase(q, tr, lv) ==
    IF block_if_safe(SAFE_MODE) THEN Blocked(tr, lv)
    ELSE luks_unlock_passphrase_body(q, tr, lv)

\* VMKEYS_DIR / f"{stem}.key" :  pathlib drops the left side when the right
\* side is absolute
KeyPath(stem) ==
    IF StartsWith(stem, <<"/">>) THEN stem \o <<".","k","e","y">>
    ELSE VMKEYS_DIR \o stem \o <<".","k","e","y">>
ManualKeyPath == <<"/","t">>

\* the candidate list, in the order it is built
KeyCandidates(q) ==
    (IF Truthy(q.uuid) THEN <<KeyPath(q.uuid)>> ELSE << >>) \o
    (IF Truthy(q.label) THEN <<KeyPath(q.label)>> ELSE << >>) \o
    <<KeyPath(q.name)>>

\* index of the first candidate that is a file, 0 if none
RECURSIVE FirstFile(_, _, _)
FirstFile(cands, files, i) ==
    IF i > Len(cands) THEN 0
    ELSE IF cands[i] \in files THEN i
    ELSE FirstFile(cands, files, i + 1)

\* Path.is_file(); the entry also keeps the key files that exist just then
IsFile(path, files, lv) ==
    [via |-> "is_file", tool |-> "is_file", flag |-> "", args |-> <<path>>,
     out |-> IF path \in files THEN "yes" ELSE "no", pids |-> << >>,
     sudo |-> FALSE, at |-> lv, files |-> files]

\* the is_file probes of the candidate loop, up to the first hit
probe_candidates(cands, files, tr, lv) ==
    LET hit == FirstFile(cands, files, 1)
    IN  tr \o [i \in 1..(IF hit = 0 THEN Len(cands) ELSE hit) |->
                 IsFile(cands[i], files, lv)]

open_with_keyfile(q, keyfile, tr, lv) ==
    UNION { luks_open(q, "--type luks --key-file",
                      <<Dev(q), m.mapper, keyfile>>, m.tr, lv,
                      "unlocked_with_keyfile")
            : m \in ask_mapper(q, tr, lv) }

\* no candidate exists: the manual path prompt
manual_keyfile(q, files, tr, lv) ==
    UNION { LET text == IF a = "path" THEN ManualKeyPath ELSE None
                t2   == Append(tr, Call("prompt", "input", "keyfile_path",
                                        <<text>>, a, << >>, lv))
                t3   == Append(t2, IsFile(text, files, lv))
            IN  IF ~Truthy(text) THEN { Out(t2, lv, "cancelled") }
                ELSE IF text \in files THEN open_with_keyfile(q, text, t3, lv)
                ELSE { Out(t3, lv, "keyfile_not_found") }
            : a \in {"^C", "empty", "path"} }

\* files: the key files that exist when the action runs
unlock_keyfile_given(q, files, tr, lv) ==
    LET cands == KeyCandidates(q)
        hit   == FirstFile(cands, files, 1)
        t1    == probe_candidates(cands, files, tr, lv)
    IN  IF hit # 0 THEN open_with_keyfile(q, cands[hit], t1, lv)
        ELSE manual_keyfile(q, files, t1, lv)

KeyFiles(q) ==
    { KeyCandidates(q)[i] : i \in 1..Len(KeyCandidates(q)) } \cup {ManualKeyPath}

luks_unlock_keyfile_body(q, tr, lv) ==
    IF ~q.is_luks \/ q.luks_unlocked THEN { Out(tr, lv, "not_locked_luks") }
    ELSE UNION { unlock_keyfile_given(q, files, tr, lv)
                 : files \in SUBSET KeyFiles(q) }

luks_unlock_keyfile(q, tr, lv) ==
    IF block_if_safe(SAFE_MODE) THEN Blocked(tr, lv)
    ELSE luks_unlock_keyfile_body(q, tr, lv)

\* mapper = p.luks_mapper or p.name
lock_mapper(q) == OrElse(q.luks_mapper, q.name)

luks_close(q, tr, lv) ==
    { Out(r.tr, r.lv, IF Raises(r.out, TRUE) THEN "close_failed" ELSE "locked")
      : r \in run_priv(tr, lv, "cryptsetup_close", "", <<lock_mapper(q)>>) }

luks_lock_body(q, tr, lv) ==
    IF ~q.is_luks THEN { Out(tr, lv, "not_luks") }
    ELSE IF ~IsMounted(q) THEN luks_close(q, tr, lv)
    ELSE UNION { IF ~c.yes THEN { Out(c.tr, lv, "declined") }
                 ELSE UNION { luks_close(q, u.tr, u.lv)
                              : u \in do_unmount(q, c.tr, lv) }
                 : c \in confirm(tr, lv, "unmount_first", TRUE) }

luks_lock(q, tr, lv) ==
    IF block_if_safe(SAFE_MODE) THEN Blocked(tr, lv)
    ELSE luks_lock_body(q, tr, lv)

\* ------------------------------------------------------------- session
\* (elsewhere: the swap areas active on devices outside the inventory)
Live(present, mnt1, mapper, mntc, swapon) ==
    [present |-> present, mnt1 |-> mnt1, mapper |-> mapper, mntc |-> mntc,
     swapon |-> swapon, elsewhere |-> << >>]

MapperMount(m) == MOUNT_BASE \o <<"/">> \o Sanitize(m)

\* the machine as the session may find it
InitialLive ==
    { Live(TRUE, m1, mp, mc, sw) :
        m1 \in { << >>, <<MOUNT_BASE \o <<"/">> \o Sanitize(L_sda1)>> },
        mp \in { None, N_sda2, N_vault },
        mc \in { << >>, <<MapperMount(N_sda2)>> },
        sw \in BOOLEAN }

\* argparse's namespace: --safe, and --mount-base DIR (None: not given)
Argv(safe, mount_base) == [safe |-> safe, mount_base |-> mount_base]

\* os.environ.get("MOUNT_BASE", "/mnt"), evaluated when the module is loaded
ImportMountBase(env) == IF env = None THEN MOUNT_BASE ELSE env

Init ==
    /\ SAFE_MODE = FALSE
    /\ priv \in {"root", "sudo", "nosudo"}
    /\ view = "start"
    /\ exit_code = -1
    /\ devs = << >>
    /\ selected = 0
    /\ p = NoPartition
    /\ live \in { lv \in InitialLive : lv.mapper = None => lv.mntc = << >> }
    /\ act = ""
    /\ trace = << >>
    /\ result = ""
    /\ nacts = 0
    /\ argv \in { Argv(safe, None) : safe \in BOOLEAN }
    /\ environ = None
    /\ DEFAULT_MOUNT_BASE = ImportMountBase(environ)
    /\ arg = None
    /\ ret = NotCalled

Quiet == act' = "" /\ trace' = << >> /\ result' = ""

\* an exception that leaves main: traceback, status 1
Crashed == view' = "crashed" /\ exit_code' = 1

\* main, up to the first draw: the flag is folded into the global, the
\* inventory is fetched, and an empty inventory ends the program by return
MainStart ==
    /\ view = "start"
    /\ SAFE_MODE' = (SAFE_MODE \/ argv.safe)
    /\ environ' = IF Truthy(argv.mount_base) THEN argv.mount_base ELSE environ
    /\ \E lsblk \in {"ok", "fail"} :
        LET f       == fetch_devices(lsblk, LsblkTree(live))
            fetched == f.parts
        IN  /\ devs' = fetched
            /\ selected' = 0
            /\ IF f.raised THEN Crashed
               ELSE IF fetched = << >>
               THEN view' = "exited" /\ exit_code' = 0
               ELSE view' = "list" /\ exit_code' = exit_code
    /\ Quiet
    /\ UNCHANGED <<priv, p, live, nacts, unit, argv, DEFAULT_MOUNT_BASE>>

ListQuit ==
    /\ view = "list"
    /\ view' = "exited" /\ exit_code' = 0
    /\ Quiet
    /\ UNCHANGED <<SAFE_MODE, priv, devs, selected, p, live, nacts, unit, config>>

ListReload ==
    /\ view = "list"
    /\ \E lsblk \in {"ok", "fail"} :
        LET f       == fetch_devices(lsblk, LsblkTree(live))
            fetched == f.parts
        IN  IF f.raised THEN Crashed /\ UNCHANGED <<devs, selected>>
            ELSE /\ devs' = fetched
                 /\ selected' = IF selected >= Len(fetched) THEN 0 ELSE selected
                 /\ UNCHANGED <<view, exit_code>>
    /\ Quiet
    /\ UNCHANGED <<SAFE_MODE, priv, p, live, nacts, unit, config>>

ListMove ==
    /\ view = "list"
    /\ \E step \in {-1, 1} :
        IF Len(devs) = 0
        THEN Crashed /\ selected' = selected
        ELSE /\ selected' = (selected + step + Len(devs)) % Len(devs)
             /\ UNCHANGED <<view, exit_code>>
    /\ Quiet
    /\ UNCHANGED <<SAFE_MODE, priv, devs, p, live, nacts, unit, config>>

\* x and t: devs[selected].mount is read, nothing is kept
ListOpen ==
    /\ view = "list"
    /\ IF selected >= Len(devs) THEN Crashed ELSE UNCHANGED <<view, exit_code>>
    /\ Quiet
    /\ UNCHANGED <<SAFE_MODE, priv, devs, selected, p, live, nacts, unit, config>>

ListEnter ==
    /\ view = "list"
    /\ \E lsblk \in {"ok", "fail"} :
        LET f       == fetch_devices(lsblk, LsblkTree(live))
            fetched == IF f.raised THEN devs ELSE f.parts
            sel     == IF f.raised \/ selected < Len(fetched) THEN selected ELSE 0
        IN  /\ devs' = fetched
            /\ selected' = sel
            /\ IF f.raised \/ fetched = << >>
               THEN Crashed /\ p' = p
               ELSE /\ view' = "details" /\ exit_code' = exit_code
                    /\ p' = fetched[sel + 1]
    /\ Quiet
    /\ UNCHANGED <<SAFE_MODE, priv, live, nacts, unit, config>>

\* a return to the list that writes the global back to its initial value
DetailsReturn_resets_gate ==
    /\ view = "details"
    /\ act = ""
    /\ view' = "list"
    /\ p' = NoPartition
    /\ SAFE_MODE' = FALSE
    /\ Quiet
    /\ UNCHANGED <<priv, exit_code, devs, selected, live, nacts, unit,
                   config>>

\* show_details: Enter, Esc or q
DetailsReturn ==
    /\ view = "details"
    /\ act = ""
    /\ view' = "list"
    /\ p' = NoPartition
    /\ Quiet
    /\ UNCHANGED <<SAFE_MODE, priv, exit_code, devs, selected, live, nacts,
                   unit, config>>

\* the end of an action called from show_details: the loop goes on with the
\* same p, unless an exception left the action and with it main
Done(name, o) ==
    /\ act' = name /\ trace' = o.tr /\ live' = o.lv /\ result' = o.res
    /\ nacts' = nacts + 1
    /\ IF o.res = "raised" THEN Crashed ELSE UNCHANGED <<view, exit_code>>
    /\ UNCHANGED <<SAFE_MODE, priv, devs, selected, p, unit, config>>

\* show_details waits for a key once the last action's output has settled
InDetails == view = "details" /\ act = "" /\ nacts < MaxActions

\* the sleep that ends a turn of show_details' loop, and the redraw from p
DetailsLoop ==
    /\ view = "details"
    /\ act # ""
    /\ Quiet
    /\ UNCHANGED <<SAFE_MODE, priv, view, exit_code, devs, selected, p, live,
                   nacts, unit, config>>

Key_m == InDetails /\ \E o \in do_mount(p, << >>, live) : Done("do_mount", o)

Key_u == InDetails /\ \E o \in do_unmount(p, << >>, live) : Done("do_unmount", o)

Key_E == InDetails /\ \E o \in do_eject(p, << >>, live) : Done("do_eject", o)

Key_r == InDetails /\ \E o \in do_remount(p, << >>, live) : Done("do_remount", o)

Key_f == InDetails /\ \E o \in do_fsck(p, << >>, live) : Done("do_fsck", o)

Key_k ==
    /\ InDetails
    /\ \E k \in kill_processes_using(p, << >>, live) :
          Done("kill_processes_using",
               Out(k.tr, live, IF k.freed THEN "freed" ELSE "not_freed"))

Key_o ==
    /\ InDetails
    /\ \E o \in luks_unlock_passphrase(p, << >>, live) :
          Done("luks_unlock_passphrase", o)

Key_O ==
    /\ InDetails
    /\ \E o \in luks_unlock_keyfile(p, << >>, live) :
          Done("luks_unlock_keyfile", o)

Key_l == InDetails /\ \E o \in luks_lock(p, << >>, live) : Done("luks_lock", o)

Key_s ==
    /\ InDetails
    /\ \E o \in do_swap_toggle(p, << >>, live) : Done("do_swap_toggle", o)

Next ==
    \/ MainStart
    \/ ListQuit
    \/ ListReload
    \/ ListMove
    \/ ListOpen
    \/ ListEnter
    \/ DetailsReturn
    \/ DetailsLoop
    \/ Key_m
    \/ Key_u
    \/ Key_E
    \/ Key_r
    \/ Key_f
    \/ Key_k
    \/ Key_o
    \/ Key_O
    \/ Key_l
    \/ Key_s

Spec == Init /\ [][Next]_vars

\* ------------------------------------------- functions called on their own
\* the session variables while a function is called on its own
SessionIdle ==
    /\ SAFE_MODE = FALSE
    /\ priv = "root"
    /\ view = "start"
    /\ exit_code = -1
    /\ devs = << >>
    /\ selected = 0
    /\ p = NoPartition
    /\ live = Live(TRUE, << >>, None, << >>, FALSE)
    /\ act = ""
    /\ trace = << >>
    /\ result = ""
    /\ nacts = 0
    /\ argv = Argv(FALSE, None)
    /\ environ = None
    /\ DEFAULT_MOUNT_BASE = ImportMountBase(environ)

ReturnedValue(v) == [state |-> "returned", value |-> v]

\* luks_unlock_keyfile on a locked LUKS partition, with or without a UUID
\* and a label, the label relative or absolute
LockedLuksPartitions ==
    { Partition(N_sda2, "3G", "crypto_LUKS", <<None>>, label, uuid, "part",
                FALSE, TRUE, None, FALSE)
      : label \in {None, L_sda2, <<"/">> \o L_sda2}, uuid \in {None, U_sda2} }

InitKeyfile ==
    /\ SAFE_MODE = FALSE
    /\ priv \in {"root", "sudo", "nosudo"}
    /\ view = "details"
    /\ exit_code = -1
    /\ p \in LockedLuksPartitions
    /\ devs = <<p>>
    /\ selected = 0
    /\ live = Live(TRUE, << >>, None, << >>, FALSE)
    /\ act = ""
    /\ trace = << >>
    /\ result = ""
    /\ nacts = 0
    /\ argv = Argv(FALSE, None)
    /\ environ = None
    /\ DEFAULT_MOUNT_BASE = ImportMountBase(environ)
    /\ arg = None
    /\ ret = NotCalled

NextKeyfile ==
    \/ Key_O
    \/ DetailsLoop

SpecKeyfile == InitKeyfile /\ [][NextKeyfile]_vars

\* a session started with and without --mount-base, with MOUNT_BASE set and
\* not set in the environment the module was loaded in
FlagBase == <<"/","b">>
EnvBase  == <<"/","e">>

InitMountBase ==
    /\ SAFE_MODE = FALSE
    /\ priv = "root"
    /\ view = "start"
    /\ exit_code = -1
    /\ devs = << >>
    /\ selected = 0
    /\ p = NoPartition
    /\ live \in { lv \in InitialLive : /\ lv.mnt1 = << >>
                                       /\ lv.mapper = None
                                       /\ lv.mntc = << >> }
    /\ act = ""
    /\ trace = << >>
    /\ result = ""
    /\ nacts = 0
    /\ argv \in { Argv(FALSE, base) : base \in {None, FlagBase} }
    /\ environ \in {None, EnvBase}
    /\ DEFAULT_MOUNT_BASE = ImportMountBase(environ)
    /\ arg = None
    /\ ret = NotCalled

SpecMountBase == InitMountBase /\ [][Next]_vars

\* do_swap_toggle on the swap partition sda3, its snapshot taken while the
\* area was active or not, on a machine where another device whose path
\* begins with /dev/sda3 may carry an active swap area
N_sda30 == N_sda3 \o <<"0">>

SwapPartitions ==
    { Partition(N_sda3, "1G", "swap", mps, None, U_sda3, "part",
                TRUE, FALSE, None, FALSE)
      : mps \in { <<None>>, <<SwapMark>> } }

InitSwap ==
    /\ SAFE_MODE = FALSE
    /\ priv \in {"root", "sudo", "nosudo"}
    /\ view = "details"
    /\ exit_code = -1
    /\ p \in SwapPartitions
    /\ devs = <<p>>
    /\ selected = 0
    /\ live \in { [Live(TRUE, << >>, None, << >>, sw) EXCEPT !.elsewhere = e]
                  : sw \in BOOLEAN, e \in { << >>, <<DevPrefix \o N_sda30>> } }
    /\ act = ""
    /\ trace = << >>
    /\ result = ""
    /\ nacts = 0
    /\ argv = Argv(FALSE, None)
    /\ environ = None
    /\ DEFAULT_MOUNT_BASE = ImportMountBase(environ)
    /\ arg = None
    /\ ret = NotCalled

NextSwap ==
    \/ Key_s
    \/ DetailsLoop

SpecSwap == InitSwap /\ [][NextSwap]_vars

\* the nodes a listing is made of: a disk a; a LUKS partition a1 with UUID
\* u; a LUKS partition b without UUID; the mappers a1m (a1 is a prefix) and
\* mu (contains u); a node of another type; a node without a type
NodeKinds ==
    {"disk", "luks", "luks_b", "crypt_prefix", "crypt_uuid", "rom", "untyped"}

MakeNode(kind, children) ==
    CASE kind = "disk" ->
            Node(<<"a">>, "8G", "disk", "", None, None, <<None>>, children)
      [] kind = "luks" ->
            Node(<<"a","1">>, "3G", "part", "crypto_LUKS", None, <<"u">>,
                 <<None>>, children)
      [] kind = "luks_b" ->
            Node(<<"b">>, "3G", "part", "crypto_LUKS", <<"c">>, None,
                 <<None>>, children)
      [] kind = "crypt_prefix" ->
            Node(<<"a","1","m">>, "3G", "crypt", "ext4", None, <<"w">>,
                 <<MOUNT_BASE>>, children)
      [] kind = "crypt_uuid" ->
            Node(<<"m","u">>, "3G", "crypt", "swap", None, None,
                 <<SwapMark>>, children)
      [] kind = "rom" ->
            Node(<<"r">>, "1G", "rom", "", None, None, <<None>>, children)
      [] OTHER ->
            Node(<<"x">>, "1G", "", "ext4", None, None, <<None>>, children)

\* the trees and forests of exactly n nodes
RECURSIVE TreesOf(_), ForestsOf(_)
TreesOf(n) ==
    { MakeNode(kind, f) : kind \in NodeKinds, f \in ForestsOf(n - 1) }
        \cup (IF n = 1 THEN {JsonScalar} ELSE {})

ForestsOf(n) ==
    IF n = 0 THEN { << >> }
    ELSE UNION { { <<t>> \o f : t \in TreesOf(k), f \in ForestsOf(n - k) }
                 : k \in 1..n }

\* what the listing query may hand fetch_devices
Listing(outcome, raw) == [outcome |-> outcome, raw |-> raw]

Listings ==
    { Listing("fail", JsonNull), Listing("unparsable", JsonNull),
      Listing("ok", JsonNull) }
        \cup { Listing("ok", JsonArray(f))
               : f \in UNION { ForestsOf(n) : n \in 0..MaxNodes } }

InitFetch ==
    /\ SessionIdle
    /\ arg \in Listings
    /\ ret = NotCalled

CallFetchDevices ==
    /\ ret = NotCalled
    /\ LET f == fetch_devices(arg.outcome, arg.raw)
       IN  ret' = IF f.raised THEN [state |-> "raised", value |-> << >>]
                  ELSE ReturnedValue(f.parts)
    /\ UNCHANGED <<session, arg>>

NextFetch == CallFetchDevices

SpecFetch == InitFetch /\ [][NextFetch]_vars

\* device names: a stem, then up to MaxTail characters of partition numbering
NameStems == { << >>, <<"s","d">>, <<"n","v","m","e">>,
               <<"m","m","c","b","l","k">> }
TailChars == {"a", "n", "p", "0", "1"}
Names ==
    { stem \o tail : stem \in NameStems,
                     tail \in UNION { [1..n -> TailChars] : n \in 0..MaxTail } }

InitParent ==
    /\ SessionIdle
    /\ arg \in Names
    /\ ret = NotCalled

CallParentDisk ==
    /\ ret = NotCalled
    /\ ret' = ReturnedValue(parent_disk(arg))
    /\ UNCHANGED <<session, arg>>

NextParent == CallParentDisk

SpecParent == InitParent /\ [][NextParent]_vars

\* =========================================================== properties
GatedActions ==
    {"do_mount", "do_unmount", "do_remount", "do_fsck", "do_eject",
     "do_swap_toggle", "luks_unlock_passphrase", "luks_unlock_keyfile",
     "luks_lock"}

\* prompts, the settle delay and nothing else are not calls to the outside
External(e) == e.via \in {"run_priv", "run_cmd", "direct", "which", "is_file"}

Indices(tr) == 1..Len(tr)

IsCmd(e, tool, flag) == e.via = "run_priv" /\ e.tool = tool /\ e.flag = flag

IsConfirm(e, what) == e.via = "prompt" /\ e.tool = "confirm" /\ e.flag = what

\* is the device the action's commands address mounted on machine lv?
MountsAt(q, lv) == SlotMounts(Slot(MapperDevPath(q), lv), lv)

LiveMounted(q, lv) == MountsAt(q, lv) # << >>

\* C1: with the Safety Gate engaged, each of the nine gated actions makes no
\* external call (no command, no directory, no query) and reports "blocked".
SafeModeBlocksEveryAction ==
    (SAFE_MODE /\ act \in GatedActions) =>
        /\ result = "blocked"
        /\ \A i \in Indices(trace) : ~External(trace[i])

\* C1 witness: the gate has blocked luks_lock on a mounted LUKS device
SafeModeBlockedLock ==
    /\ SAFE_MODE
    /\ act = "luks_lock"
    /\ p.is_luks /\ IsMounted(p)
    /\ result = "blocked"

\* the busy scenario of do_unmount: the plain umount exited non-zero and the
\* holder probe listed PIDs; k is the index of the kill confirmation
BusyWithHolders(k) ==
    /\ act = "do_unmount"
    /\ k = 5 /\ Len(trace) >= 5
    /\ IsCmd(trace[2], "umount", "") /\ trace[2].out = "nonzero"
    /\ trace[4].tool = "lsof" /\ trace[4].pids # << >>
    /\ IsConfirm(trace[5], "kill")

UnmountReportedOk(res) ==
    res \in {"unmounted", "unmounted_after_kill", "lazy_attempted"}

\* C2: busy unmount, holders listed, termination declined: the action ends
\* in failure, no lazy unmount is issued and no signal is sent.
UnmountDeclinedIsFailure ==
    (BusyWithHolders(5) /\ ~ConfirmValue(trace[5].out, TRUE)) =>
        /\ ~UnmountReportedOk(result)
        /\ \A i \in Indices(trace) :
              /\ ~IsCmd(trace[i], "umount", "-l")
              /\ ~IsCmd(trace[i], "kill", "-TERM")

\* C3: busy unmount, holders listed, termination accepted: one signal per
\* listed holder, in order, then the settle delay, then the plain umount
\* again; a successful retry is reported as success and ends the action
\* with no lazy unmount.
UnmountAcceptedRetries ==
    (BusyWithHolders(5) /\ ConfirmValue(trace[5].out, TRUE)) =>
        LET pids == trace[4].pids
            n    == Len(pids)
        IN  /\ Len(trace) >= 5 + n + 2
            /\ \A j \in 1..n :
                  /\ IsCmd(trace[5 + j], "kill", "-TERM")
                  /\ trace[5 + j].pids = <<pids[j]>>
            /\ trace[5 + n + 1].via = "sleep"
            /\ IsCmd(trace[5 + n + 2], "umount", "")
            /\ trace[5 + n + 2].args = trace[2].args
            /\ trace[5 + n + 2].out = "ok" =>
                  /\ result = "unmounted_after_kill"
                  /\ Len(trace) = 5 + n + 2
                  /\ MountsAt(p, live) = AllButLast(MountsAt(p, trace[2].at))

\* C3 witness: two holders signalled, the retry succeeded
UnmountAcceptedRetrySucceeded ==
    /\ BusyWithHolders(5) /\ ConfirmValue(trace[5].out, TRUE)
    /\ Len(trace[4].pids) = MaxPids
    /\ result = "unmounted_after_kill"

\* C4: in do_unmount the resolver runs right after the failed plain umount,
\* the plain umount is then retried, a lazy umount comes only after a failed
\* retry, and a lazy umount is reported as attempted, never as unmounted.
UnmountFallbackOrder ==
    act = "do_unmount" =>
        /\ \A i \in Indices(trace) :
              (IsCmd(trace[i], "umount", "") /\ trace[i].out # "ok"
                    /\ i < Len(trace) /\ i = 2)
                 => trace[i + 1].tool = "lsof"
        /\ \A i \in Indices(trace) :
              IsCmd(trace[i], "umount", "-l") =>
                 /\ i > 2
                 /\ IsCmd(trace[i - 1], "umount", "")
                 /\ trace[i - 1].out # "ok"
                 /\ \E j \in 1..(i - 2) : IsCmd(trace[j], "umount", "")
                 /\ result \in {"lazy_attempted", "still_cant_unmount"}

\* C5: whenever show_details waits for the next key, the Partition it will
\* act on is one of a snapshot of the machine as it now is, so an action
\* never starts from a Partition fetched before the last mutation.
DetailsPartitionIsCurrent ==
    (view = "details" /\ act = "") =>
        InSeq(p, fetch_devices("ok", LsblkTree(live)).parts)

\* C6: do_swap_toggle starts with the live query and chooses its command
\* from that listing alone: swapoff only when the listing names the device
\* (so the device is active on the machine), swapon only when it does not
\* (so, the query having worked, the device is inactive), and a confirmed
\* prompt is followed by exactly that command; the snapshot plays no part.
SwapToggleFollowsLiveListing ==
    (act = "do_swap_toggle" /\ result \notin {"blocked", "not_swap"}) =>
        LET query  == trace[1]
            listed == \E j \in 1..Len(query.args) :
                          IsSubstr(Dev(p), query.args[j])
        IN  /\ query.via = "run_cmd" /\ query.tool = "swapon"
            /\ query.flag = "--show=NAME"
            /\ query.out = "ok" => query.args = SwapListing(query.at)
            /\ Len(trace) >= 2
            /\ IsConfirm(trace[2], IF listed THEN "swapoff" ELSE "swapon")
            /\ ConfirmValue(trace[2].out, listed) <=> Len(trace) = 3
            /\ \A i \in Indices(trace) :
                  trace[i].via = "run_priv" =>
                     /\ i = 3
                     /\ trace[i].tool = (IF listed THEN "swapoff" ELSE "swapon")
                     /\ trace[i].args = <<Dev(p)>>
                     /\ listed => trace[i].at.swapon
                     /\ (~listed /\ query.out = "ok") => ~trace[i].at.swapon

\* C6 witness: the snapshot shows the swap active, the live listing does
\* not, and swapon has been issued and has succeeded
SwapOnAgainstSnapshot ==
    /\ act = "do_swap_toggle"
    /\ result = "swapon"
    /\ InSeq(SwapMark, p.mountpoints)
    /\ Len(trace) = 3
    /\ trace[1].out = "ok"
    /\ trace[3].tool = "swapon"
    /\ trace[3].out = "ok"

\* C7: luks_lock gives the close command the mapper name recorded for the
\* Partition, for every LUKS Partition it accepts; it never falls back to
\* the name of the backing device.
LockClosesByMapperName ==
    act = "luks_lock" =>
        \A i \in Indices(trace) :
            IsCmd(trace[i], "cryptsetup_close", "") =>
                /\ Truthy(p.luks_mapper)
                /\ trace[i].args = <<p.luks_mapper>>

\* C8: luks_lock on a mounted device issues the close command only once the
\* device is unmounted; none is issued while it is still mounted.
LockClosesOnlyUnmounted ==
    (act = "luks_lock" /\ IsMounted(p)) =>
        \A i \in Indices(trace) :
            IsCmd(trace[i], "cryptsetup_close", "") =>
                ~LiveMounted(p, trace[i].at)

\* C9: do_fsck on a mounted device issues the check only after a confirmed
\* unmount that has left the device unmounted.
FsckOnlyUnmounted ==
    (act = "do_fsck" /\ IsMounted(p)) =>
        \A i \in Indices(trace) :
            IsCmd(trace[i], "fsck", "-y") =>
                /\ ConfirmValue(trace[1].out, TRUE)
                /\ ~LiveMounted(p, trace[i].at)

\* C10: do_fsck issues no mount command, and a mount it has removed for the
\* check is still gone when it returns, whether the check passed or failed.
FsckNeverRemounts ==
    act = "do_fsck" =>
        \A i \in Indices(trace) :
            /\ ~(trace[i].via = "run_priv" /\ trace[i].tool = "mount")
            /\ (trace[i].via = "run_priv" /\ trace[i].tool = "umount"
                    /\ trace[i].out = "ok")
                  => MountsAt(p, live) = AllButLast(MountsAt(p, trace[i].at))

\* C10 witness: the device was unmounted for a check that then completed
FsckLeftUnmounted ==
    /\ act = "do_fsck"
    /\ IsMounted(p)
    /\ result = "fsck_completed"
    /\ \E i \in Indices(trace) :
          IsCmd(trace[i], "umount", "") /\ trace[i].out = "ok"
    /\ ~LiveMounted(p, live)

\* C11: do_mount on a locked LUKS Partition looks for a keyfile before any
\* mount command: a mount command is issued only after a keyfile probe has
\* found a file, and with no keyfile found none is issued.
MountProbesKeyfileFirst ==
    (act = "do_mount" /\ p.is_luks /\ ~p.luks_unlocked) =>
        \A i \in Indices(trace) :
            IsCmd(trace[i], "mount", "") =>
                \E j \in 1..(i - 1) :
                    trace[j].via = "is_file" /\ trace[j].out = "yes"

\* C12: do_remount is umount then mount, at the path the snapshot has the
\* device mounted at or else at the path just chosen; and when it ends in
\* failure after the first step (a mount command was issued and the report
\* is a failure) the device is left unmounted.
RemountFailureLeavesUnmounted ==
    (act = "do_remount" /\ result \in {"remounted", "remount_failed"}) =>
        LET k == IF IsMounted(p) THEN 1 ELSE 3
            at_path == IF IsMounted(p) THEN Mount(p) ELSE trace[2].args[1]
        IN  /\ Len(trace) >= k
            /\ IsCmd(trace[k], "umount", "")
            /\ trace[k].args = <<MapperDevPath(p)>>
            /\ Len(trace) <= k + 1
            /\ Len(trace) = k + 1 =>
                  /\ IsCmd(trace[k + 1], "mount", "")
                  /\ trace[k + 1].args = <<MapperDevPath(p), at_path>>
                  /\ result = "remount_failed" => ~LiveMounted(p, live)

\* C13: do_eject issues the power-off only after the first confirmation was
\* answered yes, as its last command, on /dev/<parent_disk(name)>; every
\* external call it makes names the Partition's own device or that whole
\* device, so no sibling is looked at, and with the Partition unmounted the
\* confirmation is followed by the power-off at once.
EjectConfirmedWholeDevice ==
    act = "do_eject" =>
        /\ \A i \in Indices(trace) :
              trace[i].tool = "udisksctl" =>
                 /\ i > 1 /\ i = Len(trace)
                 /\ IsConfirm(trace[1], "eject")
                 /\ ConfirmValue(trace[1].out, TRUE)
                 /\ trace[i].via = "run_priv" /\ trace[i].flag = "power-off"
                 /\ trace[i].args = <<DevPrefix \o parent_disk(p.name)>>
        /\ \A i \in Indices(trace) :
              External(trace[i]) =>
                 /\ trace[i].tool \in {"udisksctl", "umount", "lsof", "kill"}
                 /\ trace[i].tool = "umount" =>
                        trace[i].args = <<MapperDevPath(p)>>
                 /\ (trace[i].tool = "lsof" /\ trace[i].via = "run_cmd") =>
                        trace[i].args = <<MapperDevPath(p)>>
        /\ (result # "blocked" /\ ~IsMounted(p)
               /\ ConfirmValue(trace[1].out, TRUE)) =>
              Len(trace) = 2 /\ trace[2].tool = "udisksctl"

\* C13 witness: the power-off of /dev/sda was issued from the unmounted
\* sda3 while its sibling sda1 was mounted
EjectIssuedWithSiblingMounted ==
    /\ act = "do_eject"
    /\ p.name = N_sda3 /\ ~IsMounted(p)
    /\ Len(trace) = 2
    /\ trace[2].tool = "udisksctl"
    /\ trace[2].args = <<DevPrefix \o N_sda>>
    /\ trace[2].at.mnt1 # << >>

IsDigits(s) == s # << >> /\ \A i \in 1..Len(s) : s[i] \in Digits

LowerLetters ==
    { "a", "b", "c", "d", "e", "f", "g", "h", "i", "j", "k", "l", "m",
      "n", "o", "p", "q", "r", "s", "t", "u", "v", "w", "x", "y", "z" }

IsLetters(s) == s # << >> /\ \A i \in 1..Len(s) : s[i] \in LowerLetters

\* nvme<digits>n<digits>, the name of a whole NVMe namespace
IsNvmeDisk(b) ==
    /\ StartsWith(b, <<"n","v","m","e">>)
    /\ \E k \in 6..(Len(b) - 1) :
          /\ b[k] = "n"
          /\ IsDigits(SubSeq(b, 5, k - 1))
          /\ IsDigits(SubSeq(b, k + 1, Len(b)))

\* mmcblk<digits>, the name of a whole MMC device
IsMmcDisk(b) ==
    /\ StartsWith(b, <<"m","m","c","b","l","k">>)
    /\ IsDigits(SubSeq(b, 7, Len(b)))

\* C14: parent_disk returns <base> for every name <base>p<digits> with
\* <base> an NVMe or MMC whole-device name, and <letters> for every name
\* <letters><digits>.
ParentDiskStripsSuffix ==
    ret.state = "returned" =>
        /\ \A k \in 1..(Len(arg) - 1) :
              (/\ arg[k] = "p"
               /\ IsDigits(SubSeq(arg, k + 1, Len(arg)))
               /\ (IsNvmeDisk(SubSeq(arg, 1, k - 1))
                     \/ IsMmcDisk(SubSeq(arg, 1, k - 1))))
              => ret.value = SubSeq(arg, 1, k - 1)
        /\ \A k \in 1..(Len(arg) - 1) :
              (IsLetters(SubSeq(arg, 1, k))
                 /\ IsDigits(SubSeq(arg, k + 1, Len(arg))))
              => ret.value = SubSeq(arg, 1, k)

\* C14 witness: nvme0n1p1 has been mapped to nvme0n1
ParentOfNvmePartition ==
    /\ ret.state = "returned"
    /\ arg = <<"n","v","m","e","0","n","1","p","1">>
    /\ ret.value = <<"n","v","m","e","0","n","1">>

\* C15: luks_unlock_keyfile tries the UUID-named, the label-named and the
\* device-name-named file, each under the trusted key directory, in that
\* order, and passes the first that exists to the unlock command (so the
\* UUID-named file when both it and the label-named file exist).
KeyfileResolutionOrder ==
    (act = "luks_unlock_keyfile" /\ result \notin {"blocked", "not_locked_luks"}) =>
        LET files  == trace[1].files
            has(x) == Truthy(x) /\ KeyPath(x) \in files
            found  == has(p.uuid) \/ has(p.label) \/ has(p.name)
            first  == IF has(p.uuid) THEN KeyPath(p.uuid)
                      ELSE IF has(p.label) THEN KeyPath(p.label)
                      ELSE KeyPath(p.name)
        IN  \A i \in Indices(trace) :
               /\ trace[i].via = "is_file" =>
                     \/ StartsWith(trace[i].args[1], VMKEYS_DIR)
                     \/ \E j \in 1..(i - 1) : trace[j].flag = "keyfile_path"
               /\ (IsCmd(trace[i], "cryptsetup_open", "--type luks --key-file")
                      /\ found) =>
                     /\ trace[i].args[3] = first
                     /\ StartsWith(first, VMKEYS_DIR)

\* the nodes of a forest in depth-first order, parents before children
RECURSIVE Flatten(_)
Flatten(nodes) ==
    IF nodes = << >> THEN << >>
    ELSE <<Head(nodes)>> \o Flatten(Head(nodes).children) \o Flatten(Tail(nodes))

IsTypedNonDisk(node) == node.type # "" /\ node.type # "disk"

FetchReturned == ret.state = "returned" /\ arg.outcome = "ok"

\* C16: fetch_devices emits no node of type disk or without a type, and the
\* Partitions it emits are, in depth-first order, exactly the typed non-disk
\* nodes of the tree, whatever their depth.
FetchEmitsNonDisks ==
    FetchReturned =>
        LET nodes == SelectSeq(Flatten(arg.raw.items), IsTypedNonDisk)
        IN  /\ Len(ret.value) = Len(nodes)
            /\ \A i \in 1..Len(nodes) :
                  /\ ret.value[i].type \notin {"disk", ""}
                  /\ ret.value[i].name = nodes[i].name
                  /\ ret.value[i].type = nodes[i].type

\* C16 witness: a disk below the top level is skipped while a node two
\* levels below the top is emitted
FetchSkippedNestedDisk ==
    /\ FetchReturned
    /\ Len(arg.raw.items) = 1
    /\ Len(arg.raw.items[1].children) = 1
    /\ arg.raw.items[1].children[1].type = "disk"
    /\ Len(arg.raw.items[1].children[1].children) = 1
    /\ arg.raw.items[1].type = "rom"
    /\ Len(ret.value) = 2

\* C17: in a returned snapshot every Partition of type crypt has
\* is_luks and luks_unlocked set and its own name as luks_mapper.
CryptNodesSelfMapped ==
    FetchReturned =>
        \A i \in 1..Len(ret.value) :
            ret.value[i].type = "crypt" =>
                /\ ret.value[i].is_luks
                /\ ret.value[i].luks_unlocked
                /\ ret.value[i].luks_mapper = ret.value[i].name

\* C17 witness: a snapshot with a crypt Partition that a locked partition
\* was linked to
CryptNodeAfterLinking ==
    /\ FetchReturned
    /\ \E i, j \in 1..Len(ret.value) :
          /\ ret.value[i].type = "crypt"
          /\ ret.value[j].type = "part"
          /\ ret.value[j].luks_mapper = ret.value[i].name

\* is cand an unlocked crypt Partition whose name starts with q's name or
\* contains q's UUID?
NamedAfter(q, cand) ==
    /\ cand.type = "crypt" /\ cand.luks_unlocked
    /\ \/ SubSeq(cand.name, 1, Len(q.name)) = q.name
       \/ /\ q.uuid # None
          /\ \E k \in 1..Len(cand.name) :
                SubSeq(cand.name, k, k + Len(q.uuid) - 1) = q.uuid

\* C18: a locked LUKS partition (crypto_LUKS, not of type crypt) that no
\* unlocked crypt Partition of the snapshot is named after stays locked and
\* without a mapper.
UnmatchedLuksStaysLocked ==
    FetchReturned =>
        \A i \in 1..Len(ret.value) :
            (/\ ret.value[i].fstype = "crypto_LUKS"
             /\ ret.value[i].type # "crypt"
             /\ \A j \in 1..Len(ret.value) :
                   ~NamedAfter(ret.value[i], ret.value[j]))
            => /\ ~ret.value[i].luks_unlocked
               /\ ret.value[i].luks_mapper = None

\* C18 witness: partition b stays locked next to a mapper named after a1
UnmatchedLuksNextToMapper ==
    /\ FetchReturned
    /\ \E i, j \in 1..Len(ret.value) :
          /\ ret.value[i].name = <<"b">>
          /\ ret.value[i].is_luks /\ ~ret.value[i].luks_unlocked
          /\ ret.value[j].type = "crypt"

\* C19: the linking pass turns each still-locked LUKS Partition that some
\* unlocked crypt Partition is named after into an unlocked one whose
\* mapper is the first such Partition in depth-first order, and changes
\* nothing else.
LinkTakesFirstMatch ==
    FetchReturned =>
        LET before == walkAll(arg.raw.items)
            hits(i) == { j \in 1..Len(before) : NamedAfter(before[i], before[j]) }
            first(i) == CHOOSE j \in hits(i) : \A k \in hits(i) : j <= k
        IN  /\ Len(ret.value) = Len(before)
            /\ \A i \in 1..Len(before) :
                  IF before[i].is_luks /\ ~before[i].luks_unlocked
                       /\ hits(i) # {}
                  THEN ret.value[i] =
                          [before[i] EXCEPT !.luks_unlocked = TRUE,
                                            !.luks_mapper = before[first(i)].name]
                  ELSE ret.value[i] = before[i]

\* C19 witness: a1 has two mappers named after it, mu listed before a1m, and
\* is linked to mu
LinkedToFirstOfTwo ==
    /\ FetchReturned
    /\ Len(ret.value) = 3
    /\ ret.value[1].name = <<"m","u">>
    /\ ret.value[2].name = <<"a","1">>
    /\ ret.value[3].name = <<"a","1","m">>
    /\ ret.value[2].luks_mapper = <<"m","u">>

\* C20: fetch_devices never raises to its caller, whatever the query and
\* the listing are.
FetchNeverRaises == ret.state # "raised"

IsKill(e) == e.via = "run_priv" /\ e.tool = "kill"

\* C21: a termination signal is sent only after the kill confirmation was
\* answered with an explicit yes; on an empty answer, an interrupt or a no the
\* resolver sends nothing, does nothing more and returns false.
ResolverSignalsOnlyOnYes ==
    /\ \A i \in Indices(trace) :
          IsKill(trace[i]) =>
             \E j \in 1..(i - 1) :
                IsConfirm(trace[j], "kill") /\ trace[j].out = " Yes"
    /\ act = "kill_processes_using" =>
          \A j \in Indices(trace) :
             (IsConfirm(trace[j], "kill") /\ trace[j].out \in {"", "^C", "n"})
             => j = Len(trace) /\ result = "not_freed"

\* C21 witness: holders were listed, the confirmation got a bare Enter, and
\* the resolver returned false without a signal
ResolverDeclinedByEnter ==
    /\ act = "kill_processes_using"
    /\ Len(trace) = 3
    /\ Len(trace[2].pids) > 0
    /\ IsConfirm(trace[3], "kill") /\ trace[3].out = ""
    /\ result = "not_freed"

\* C22: once the kill confirmation is answered yes, the resolver signals
\* every listed holder, waits the settle delay and returns true, whatever
\* becomes of the individual signals.
ResolverTrueOnceConfirmed ==
    act = "kill_processes_using" =>
        \A j \in Indices(trace) :
            (IsConfirm(trace[j], "kill") /\ trace[j].out = " Yes") =>
                LET pids == trace[j - 1].pids
                IN  /\ Len(trace) = j + Len(pids) + 1
                    /\ \A k \in 1..Len(pids) :
                          IsKill(trace[j + k]) /\ trace[j + k].pids = <<pids[k]>>
                    /\ trace[Len(trace)].via = "sleep"
                    /\ result = "freed"

\* C23: run_priv runs the caller's vector as it is when the caller is root
\* and behind sudo otherwise; nothing else is ever run behind sudo, and no
\* caller puts sudo into the vector itself.
MediatorElevatesUnlessRoot ==
    \A i \in Indices(trace) :
        /\ trace[i].via = "run_priv" => (trace[i].sudo <=> priv # "root")
        /\ trace[i].via # "run_priv" => ~trace[i].sudo
        /\ trace[i].tool # "sudo"

\* C23 witness: as root, a mount was run without sudo and succeeded
RootRunsVectorDirectly ==
    /\ priv = "root"
    /\ act = "do_mount"
    /\ result = "mounted"
    /\ IsCmd(trace[Len(trace)], "mount", "")
    /\ ~trace[Len(trace)].sudo

FailedPriv(e) == e.via = "run_priv" /\ e.out \in {"nonzero", "noexec"}

\* C24: in every action a privileged command that exits non-zero or cannot
\* be elevated ends the action: no privileged command follows it, the
\* holder resolution after a failed umount (signals, umount again) aside.
FailureAbortsAction ==
    \A i, j \in Indices(trace) :
        (i < j /\ FailedPriv(trace[i]) /\ trace[j].via = "run_priv") =>
            /\ trace[i].tool \in {"umount", "kill"}
            /\ trace[j].tool \in {"umount", "kill"}

\* C25: no failure inside an action leaves the action: once an action has
\* run, whatever failed in it, show_details' loop is still running and the
\* program has neither exited nor died.
ActionFailuresStayInside ==
    act # "" => /\ result # "raised"
                /\ view = "details"
                /\ exit_code = -1

Interrupted(e) == e.via = "prompt" /\ e.out = "^C"

\* C26: a prompt of an action answered by Ctrl-C or end-of-input ends the
\* action: no external command follows the interrupted prompt, and the
\* details view goes on.
InterruptAbortsAction ==
    \A i \in Indices(trace) :
        Interrupted(trace[i]) =>
            /\ \A j \in Indices(trace) : j > i => ~External(trace[j])
            /\ view = "details"

\* C27: the exit status tells why the program ended: it is non-zero when
\* main ends before the first draw (empty initial inventory, failed
\* start), and zero when the list view ends on the quit key.
ExitStatusByCause ==
    [][ /\ (view = "start" /\ view' \in {"exited", "crashed"}) => exit_code' # 0
        /\ (ListQuit => exit_code' = 0) ]_vars

\* C28: the gate is written once, by main before the first draw, from
\* --safe; nothing writes SAFE_MODE afterwards, so from the first draw on
\* the global is the flag in every state of the session.
GateSetOnceAtStart ==
    /\ view = "start" => ~SAFE_MODE
    /\ view # "start" => SAFE_MODE = argv.safe

\* C28 witness: a session started with --safe that has been through two
\* actions and a return to the list.
GateHeldThroughSession ==
    /\ argv.safe
    /\ SAFE_MODE
    /\ view = "list"
    /\ nacts = 2

\* the directory the default mount point lies in, as documented: the flag
\* when given, else the environment's MOUNT_BASE, else /mnt
DocumentedBase ==
    IF Truthy(argv.mount_base) THEN argv.mount_base
    ELSE ImportMountBase(environ)

\* C29: with --mount-base DIR the default mount point is DIR/<sanitized label
\* or name>: when the mount-point prompt is left to its default, that is the
\* directory created.
MountBaseFlagOverrides ==
    \A i \in Indices(trace) :
        (/\ i > 1
         /\ trace[i].tool = "mkdir"
         /\ trace[i-1].via = "prompt"
         /\ trace[i-1].flag = "mount_point"
         /\ trace[i-1].out \in {"^C", "empty", "blank"}) =>
            trace[i].args =
                <<DocumentedBase \o <<"/">> \o Sanitize(OrElse(p.label, p.name))>>

\* the operations that change the machine: everything but queries, prompts
\* and waits
ChangesSystem(e) ==
    \/ e.tool \in {"mount", "umount", "fsck", "udisksctl", "swapoff",
                   "cryptsetup_open", "cryptsetup_close", "kill", "mkdir"}
    \/ e.tool = "swapon" /\ e.flag # "--show=NAME"

\* C30: every operation that changes the machine, the creation of the
\* mount-point directory included, is run by run_priv and never by the
\* process itself.
EveryChangeThroughMediator ==
    \A i \in Indices(trace) :
        ChangesSystem(trace[i]) => trace[i].via = "run_priv"

\* the snapshot lists a mount point for q
HasMountpoint(q) == \E i \in 1..Len(q.mountpoints) : q.mountpoints[i] # None

\* C31: the preconditions cost nothing: do_mount on a Partition whose
\* snapshot has a mount point, and do_unmount on one without, prompt for
\* nothing, create no directory, issue no command and leave the machine alone.
PreconditionsWithoutEffects ==
    /\ (act = "do_mount" /\ HasMountpoint(p)) =>
            /\ trace = << >>
            /\ result \in {"already_mounted", "blocked"}
    /\ (act = "do_unmount" /\ ~HasMountpoint(p)) =>
            /\ trace = << >>
            /\ result \in {"not_mounted", "blocked"}

\* C31 witness: with the gate open, do_mount was called on a Partition
\* mounted in its snapshot and reported so.
MountRefusedOnMounted ==
    /\ ~SAFE_MODE
    /\ act = "do_mount"
    /\ HasMountpoint(p)
    /\ result = "already_mounted"
    /\ trace = << >>

\* C32: with the gate engaged no key of the details view, k included, has a
\* termination signal sent to a process.
SafeModeSendsNoSignal ==
    SAFE_MODE => \A i \in Indices(trace) : ~IsKill(trace[i])

IsPowerOff(e) == IsCmd(e, "udisksctl", "power-off")

\* C33: do_eject issues no power-off while the selected partition is still
\* mounted: the partition is not mounted on the machine when the power-off
\* is issued, and for a Partition mounted in its snapshot a umount has
\* succeeded before it.
EjectNeverWhileMounted ==
    act = "do_eject" =>
        \A i \in Indices(trace) :
            IsPowerOff(trace[i]) =>
                /\ ~LiveMounted(p, trace[i].at)
                /\ HasMountpoint(p) =>
                       \E j \in 1..(i-1) : /\ trace[j].via = "run_priv"
                                            /\ trace[j].tool = "umount"
                                            /\ trace[j].out = "ok"

\* C34: in main's loop the cursor is a valid index whenever the inventory
\* is indexed (x, t, Enter after its refresh) and the inventory is not
\* empty whenever its length is the modulus (up, down).
SelectedIndexValid ==
    [][ /\ ListMove  => Len(devs) > 0
        /\ ListOpen  => selected < Len(devs)
        /\ ListEnter => selected' < Len(devs') ]_vars

\* C35: Enter opens the device that was highlighted: the Partition handed
\* to show_details has the name of the entry the cursor was on in the list
\* as last drawn, whatever the refresh on Enter returned.
EnterOpensHighlighted ==
    [][ (ListEnter /\ view' = "details" /\ selected < Len(devs)) =>
            p'.name = devs[selected + 1].name ]_vars

\* the positions of the trace that satisfy a test, as sets
UmountsIn(tr) ==
    { i \in Indices(tr) : tr[i].via = "run_priv" /\ tr[i].tool = "umount" }

ConfirmsIn(tr, what) == { i \in Indices(tr) : IsConfirm(tr[i], what) }

ProbesIn(tr) ==
    { i \in Indices(tr) : tr[i].via = "run_cmd" /\ tr[i].tool = "lsof" }

\* C36: do_unmount is bounded: one confirmation at most, one round of
\* holder resolution at most (one probe, one kill confirmation, one signal
\* per holder), three umount commands at most, of which only the last of
\* three is lazy; it ends whatever the prompts and commands answer.
UnmountBounded ==
    act = "do_unmount" =>
        /\ Cardinality(ConfirmsIn(trace, "unmount")) <= 1
        /\ Cardinality(ProbesIn(trace)) <= 1
        /\ Cardinality(ConfirmsIn(trace, "kill")) <= 1
        /\ Cardinality({ i \in Indices(trace) : IsKill(trace[i]) }) <= MaxPids
        /\ Cardinality(UmountsIn(trace)) <= 3
        /\ Cardinality({ i \in UmountsIn(trace) : trace[i].flag = "" }) <= 2
        /\ \A i \in UmountsIn(trace) :
              trace[i].flag = "-l" => i = Len(trace)
        /\ result # ""

\* C36 witness: the longest run: the first umount failed, the holders were
\* signalled, the retry failed as well and the lazy umount ended the action.
UnmountWentThroughAllThree ==
    /\ act = "do_unmount"
    /\ Cardinality(UmountsIn(trace)) = 3
    /\ Cardinality({ i \in Indices(trace) : IsKill(trace[i]) }) = MaxPids
    /\ trace[Len(trace)].flag = "-l"

IsSwapQuery(e) == e.via = "run_cmd" /\ e.tool = "swapon" /\ e.flag = "--show=NAME"

\* C37: do_swap_toggle issues swapoff for a device path only if that path
\* is itself a line of the listing it has just read: a listed path that
\* merely contains it does not count.
SwapOffOnlyForListedDevice ==
    act = "do_swap_toggle" =>
        \A i \in Indices(trace) :
            IsCmd(trace[i], "swapoff", "") =>
                \E j \in 1..(i-1) : /\ IsSwapQuery(trace[j])
                                     /\ InSeq(Dev(p), trace[j].args)

\* C38: in a returned snapshot every Partition marked unlocked names as its
\* mapper a Partition of type crypt of the same snapshot, and a Partition
\* that is not LUKS is neither unlocked nor has a mapper.
SnapshotLuksConsistent ==
    FetchReturned =>
        \A i \in 1..Len(ret.value) :
            /\ ret.value[i].luks_unlocked =>
                  \E j \in 1..Len(ret.value) :
                      /\ ret.value[j].type = "crypt"
                      /\ ret.value[j].name = ret.value[i].luks_mapper
            /\ ~ret.value[i].is_luks =>
                  /\ ~ret.value[i].luks_unlocked
                  /\ ret.value[i].luks_mapper = None

\* C38 witness: a snapshot holding a LUKS partition linked to its mapper,
\* the mapper, and a Partition that is not LUKS.
SnapshotLinkedAndPlain ==
    /\ FetchReturned
    /\ Len(ret.value) = 3
    /\ \E i, j, k \in 1..3 :
          /\ ret.value[i].type = "part"
          /\ ret.value[i].luks_unlocked
          /\ ret.value[j].type = "crypt"
          /\ ret.value[i].luks_mapper = ret.value[j].name
          /\ ~ret.value[k].is_luks

\* C39: parent_disk leaves a whole-device name as it is (an NVMe or MMC
\* device name, a name of letters only), and what it returns is such a
\* name: applying it to its own result changes nothing.
ParentDiskIdempotent ==
    ret.state = "returned" =>
        /\ (IsNvmeDisk(arg) \/ IsMmcDisk(arg) \/ IsLetters(arg)) =>
               ret.value = arg
        /\ parent_disk(ret.value) = ret.value

====
